---- MODULE Spec2Model ----
(***************************************************************************)
(* LokiSecretsMetadataStore: one store instance over one backing file.     *)
(*                                                                         *)
(* State: the two lifecycle flags, the in-memory Loki database (the        *)
(* secrets collection and its documents), the backing file at lokiDBPath,  *)
(* Loki's autosave / throttled-save bookkeeping, the position of every     *)
(* asynchronous lifecycle call that is in flight, the outcome of the last  *)
(* data operations called, what was in memory when the close() in flight   *)
(* was called, and whether init() was called since a close() resolved.     *)
(*                                                                         *)
(* Spec: the caller awaits a lifecycle call (init, close, clean) before it *)
(* issues the next one; data operations are issued at any time, also while *)
(* a lifecycle call is suspended.                                          *)
(* SpecOverlap: lifecycle calls overlap as well (one init(), one close()   *)
(* and one clean() in flight at a time), over a store with one secret.     *)
(* The length of the versions arrays is capped in both.                    *)
(***************************************************************************)
EXTENDS Integers, Sequences, FiniteSets, TLC

\* ---------------------------------------------------------------- bounds
\* longest versions array setSecret is called on to build, under Spec
MaxVersions == 2

\* the same under SpecOverlap
MaxOverlapVersions == 3

Names == {"a", "b"}
Payloads == {"v1", "v2"}

\* ------------------------------------------------------------- documents
NoDoc == [present |-> FALSE, versions |-> <<>>, deleted |-> FALSE]

EmptyDocs == [n \in Names |-> NoDoc]

\* a document of the secrets collection as a backing file may hold it when
\* the store is constructed: written by an earlier run of the service
StoredDoc(d) == [present |-> TRUE, versions |-> <<"v1">>, deleted |-> d]

\* the collections stored in the file: one active secret, or an active and
\* a soft-deleted one
InitialDocs == {[EmptyDocs EXCEPT !["a"] = StoredDoc(FALSE)],
                [EmptyDocs EXCEPT !["a"] = StoredDoc(FALSE), !["b"] = StoredDoc(TRUE)]}

NoFile == [exists |-> FALSE, docs |-> EmptyDocs]

InitialFiles == {NoFile} \cup {[exists |-> TRUE, docs |-> d] : d \in InitialDocs}

\* ----------------------------------------------------------------- state
VARIABLES
    initialized,   \* this.initialized
    closed,        \* this.closed
    db,            \* this.db in memory: [coll, docs]
    dirty,         \* the collection's dirty flag (autosaveDirty())
    autosave,      \* Loki's autosave timer is running
    file,          \* the backing file at lokiDBPath: [exists, docs]
    saving,        \* "none", "write" or "load": Loki's throttledSavePending
    saveSnap,      \* the serialized database of the write in flight
    saveCbs,       \* callbacks that run when the write in flight ends
    saveQueued,    \* Loki's throttledCallbacks
    pcInit,        \* position of the init() in flight
    pcClose,       \* position of the close() in flight
    pcClean,       \* position of the clean() in flight
    initRes,       \* how the last init() settled
    closeRes,      \* how the last close() settled
    cleanRes,      \* how the last clean() settled
    last,          \* the last data operation called and its outcome
    prev,          \* the setSecret or deleteSecret called before it, if any
    closeMem,      \* the documents in memory when the close() in flight was called
    initSinceClose \* init() has been called since a close() last resolved

vars == <<initialized, closed, db, dirty, autosave, file, saving, saveSnap,
          saveCbs, saveQueued, pcInit, pcClose, pcClean, initRes, closeRes,
          cleanRes, last, prev, closeMem, initSinceClose>>

flags == <<initialized, closed>>
loki == <<db, dirty, autosave>>
saver == <<saving, saveSnap, saveCbs, saveQueued>>
pcs == <<pcInit, pcClose, pcClean>>
results == <<initRes, closeRes, cleanRes>>
history == <<last, prev>>
order == <<closeMem, initSinceClose>>

\* what a call returned: nothing, a document of the collection (a
\* SecretRecord) or one SecretVersion
Nothing == [kind |-> "none", versions |-> <<>>]

NoCall == [op |-> "none", name |-> "", arg |-> "", res |-> "none", ret |-> Nothing]

Call(op, n, p, res, ret) == [op |-> op, name |-> n, arg |-> p, res |-> res, ret |-> ret]

\* the calls a two-call sequence starts with
Mutations == {"setSecret", "deleteSecret"}

\* prev keeps the call before the last one when it was a setSecret or a
\* deleteSecret
Record(c) == /\ last' = c
             /\ prev' = IF last.op \in Mutations
                        THEN [last EXCEPT !.ret = Nothing]
                        ELSE NoCall

\* the state after construction (lines 26-36), but for the backing file
Constructed ==
    /\ initialized = FALSE
    /\ closed = TRUE
    /\ db = [coll |-> FALSE, docs |-> EmptyDocs]
    /\ dirty = FALSE
    /\ autosave = TRUE
    /\ saving = "none"
    /\ saveSnap = EmptyDocs
    /\ saveCbs = <<>>
    /\ saveQueued = <<>>
    /\ pcInit = "idle"
    /\ pcClose = "idle"
    /\ pcClean = "idle"
    /\ initRes = "none"
    /\ closeRes = "none"
    /\ cleanRes = "none"
    /\ last = NoCall
    /\ prev = NoCall
    /\ closeMem = EmptyDocs
    /\ initSinceClose = FALSE

Init ==
    /\ Constructed
    /\ file \in InitialFiles

isInitialized == initialized

isClosed == closed

\* ------------------------------------------------- Loki: throttled saves
\* The part of the state a save, a load or one of their callbacks touches.
Here == [initialized |-> initialized, closed |-> closed, db |-> db,
         dirty |-> dirty, saving |-> saving, snap |-> saveSnap,
         cbs |-> saveCbs, queued |-> saveQueued, pcInit |-> pcInit,
         pcClose |-> pcClose, initRes |-> initRes, closeRes |-> closeRes,
         closeMem |-> closeMem, initSinceClose |-> initSinceClose]

Becomes(s) ==
    /\ initialized' = s.initialized
    /\ closed' = s.closed
    /\ db' = s.db
    /\ dirty' = s.dirty
    /\ saving' = s.saving
    /\ saveSnap' = s.snap
    /\ saveCbs' = s.cbs
    /\ saveQueued' = s.queued
    /\ pcInit' = s.pcInit
    /\ pcClose' = s.pcClose
    /\ initRes' = s.initRes
    /\ closeRes' = s.closeRes
    /\ closeMem' = s.closeMem
    /\ initSinceClose' = s.initSinceClose

\* db.saveDatabase(callback): queued behind the save or load in flight, else
\* the database is serialized now, its dirty flag cleared, and written later.
saveDatabase(s, owner) ==
    IF s.saving # "none"
    THEN [s EXCEPT !.queued = Append(s.queued, owner)]
    ELSE [s EXCEPT !.saving = "write", !.snap = s.db.docs,
                   !.cbs = <<owner>> \o s.queued, !.queued = <<>>,
                   !.dirty = FALSE]

\* Loki after a write or a load has ended: throttledSavePending is cleared
\* and a save is kicked off for the callbacks that queued up meanwhile.
kickQueued(s) ==
    IF s.queued = <<>>
    THEN [s EXCEPT !.saving = "none", !.cbs = <<>>]
    ELSE [s EXCEPT !.saving = "write", !.snap = s.db.docs, !.cbs = s.queued,
                   !.queued = <<>>, !.dirty = FALSE]

\* db.loadDatabase({}, callback): waits for the saves in flight to drain,
\* then holds the save throttle while the file is read.
loadDatabase(s) ==
    IF s.saving # "none"
    THEN [s EXCEPT !.queued = Append(s.queued, "drain"), !.pcInit = "drain"]
    ELSE [s EXCEPT !.saving = "load", !.pcInit = "load"]

\* init(), lines 64-85: create the secrets collection if the database has
\* none, then save the database.
initCreateAndSave(s) ==
    LET t == IF s.db.coll
             THEN s
             ELSE [s EXCEPT !.db = [coll |-> TRUE, docs |-> EmptyDocs],
                            !.dirty = TRUE]
    IN  saveDatabase([t EXCEPT !.pcInit = "save"], "init")

\* init() without line 87: the store is opened but not marked initialized
initSavedOpensOnly(s, err) ==
    IF err
    THEN [s EXCEPT !.pcInit = "idle", !.initRes = "rejected"]
    ELSE [s EXCEPT !.pcInit = "idle", !.initRes = "resolved",
                   !.closed = FALSE]

\* init(), lines 78-88: the callback of saveDatabase and what follows it.
initSaved(s, err) ==
    IF err
    THEN [s EXCEPT !.pcInit = "idle", !.initRes = "rejected"]
    ELSE [s EXCEPT !.pcInit = "idle", !.initRes = "resolved",
                   !.initialized = TRUE, !.closed = FALSE]

\* close(), lines 99-108: the callback of db.close and what follows it.
closeSaved(s, err) ==
    IF err
    THEN [s EXCEPT !.pcClose = "idle", !.closeRes = "rejected",
                   !.closeMem = EmptyDocs]
    ELSE [s EXCEPT !.pcClose = "idle", !.closeRes = "resolved",
                   !.closed = TRUE, !.closeMem = EmptyDocs,
                   !.initSinceClose = FALSE]

\* one callback of a finished write
runCallback(s, owner, err) ==
    CASE owner = "init"  -> initSaved(s, err)
      [] owner = "close" -> closeSaved(s, err)
      [] owner = "drain" -> loadDatabase(s)
      [] OTHER           -> s

RECURSIVE runCallbacks(_, _, _)
runCallbacks(s, cbs, err) ==
    IF cbs = <<>>
    THEN s
    ELSE runCallbacks(runCallback(s, Head(cbs), err), Tail(cbs), err)

\* ------------------------------------------------------------- lifecycle
\* init(), lines 46-48: the call starts stat(lokiDBPath) and suspends.
init ==
    /\ pcInit = "idle"
    /\ pcInit' = "stat"
    /\ initRes' = "pending"
    /\ initSinceClose' = TRUE
    /\ UNCHANGED <<history, flags, loki, file, saver, pcClose, pcClean, closeRes,
                   cleanRes, closeMem>>

\* stat fails when the file is absent, and may fail for another reason
\* (permissions, I/O) when it is there
statErrors == IF file.exists THEN BOOLEAN ELSE {TRUE}

\* init(), lines 48-61: the callback of stat. Without an error the database
\* is loaded; with any error the load is skipped and init() goes on to
\* lines 64-85.
statDone ==
    /\ pcInit = "stat"
    /\ \E statError \in statErrors :
          Becomes(IF ~statError THEN loadDatabase(Here) ELSE initCreateAndSave(Here))
    /\ UNCHANGED <<autosave, file, pcClean, cleanRes, history>>

\* the file as loadDatabase finds it: its collections replace those in
\* memory; a file that has gone meanwhile leaves the database as it is
loaded(s) ==
    IF file.exists
    THEN [s EXCEPT !.db = [coll |-> TRUE, docs |-> file.docs], !.dirty = FALSE]
    ELSE s

\* init(), lines 50-56 and 64-85: the callback of loadDatabase.
loadDone ==
    /\ pcInit = "load"
    /\ saving = "load"
    /\ \E dbError \in (IF file.exists THEN BOOLEAN ELSE {FALSE}) :
          Becomes(IF dbError
                  THEN [kickQueued(Here) EXCEPT !.pcInit = "idle", !.initRes = "rejected"]
                  ELSE initCreateAndSave(kickQueued(loaded(Here))))
    /\ UNCHANGED <<autosave, file, pcClean, cleanRes, history>>

\* The write of a saveDatabase ends: the file holds the serialized database
\* unless the write failed, the next queued save starts, and the callbacks
\* of the finished one run (init lines 78-88, close lines 99-108).
saveDone ==
    /\ saving = "write"
    /\ \E err \in BOOLEAN :
          /\ file' = IF err THEN file ELSE [exists |-> TRUE, docs |-> saveSnap]
          /\ Becomes(runCallbacks(kickQueued(Here), saveCbs, err))
    /\ UNCHANGED <<autosave, pcClean, cleanRes, history>>

Range(q) == {q[i] : i \in DOMAIN q}

\* Loki's autosave timer (constructor, lines 32-35): saves a dirty database.
\* A tick that finds an autosave already queued adds nothing to it.
autosaveTick ==
    /\ autosave
    /\ dirty
    /\ "auto" \notin Range(saveQueued)
    /\ Becomes(saveDatabase(Here, "auto"))
    /\ UNCHANGED <<autosave, file, pcClean, cleanRes, history>>

\* close(), lines 97-108: db.close stops the autosave timer and, the
\* database being opened with autosave: true, saves it when it is dirty;
\* otherwise its callback runs at once and closed is set.
close ==
    /\ pcClose = "idle"
    /\ autosave' = FALSE
    /\ IF dirty
       THEN Becomes(saveDatabase([Here EXCEPT !.pcClose = "save",
                                              !.closeRes = "pending",
                                              !.closeMem = db.docs], "close"))
       ELSE Becomes(closeSaved(Here, FALSE))
    /\ UNCHANGED <<history, file, pcClean, cleanRes>>

\* clean() without its guard
cleanAlways == TRUE

\* clean() guarded by a three-state lifecycle: only after init() and close()
cleanAfterUseOnly == isInitialized /\ isClosed

\* clean(), line 118
cleanPermitted == isClosed

\* clean(), lines 117-123: rimraf is started when the store is closed,
\* otherwise the call throws.
clean ==
    /\ pcClean = "idle"
    /\ IF cleanPermitted
       THEN /\ pcClean' = "rimraf"
            /\ cleanRes' = "pending"
       ELSE /\ pcClean' = pcClean
            /\ cleanRes' = "threw"
    /\ UNCHANGED <<history, flags, loki, file, saver, pcInit, pcClose, initRes,
                   closeRes, order>>

\* clean(), lines 119-121: rimraf ends; the file is gone unless it failed.
rimrafDone ==
    /\ pcClean = "rimraf"
    /\ \E err \in BOOLEAN :
          /\ file' = IF err THEN file ELSE NoFile
          /\ cleanRes' = IF err THEN "rejected" ELSE "resolved"
    /\ pcClean' = "idle"
    /\ UNCHANGED <<flags, loki, saver, pcInit, pcClose, initRes, closeRes, history,
                   order>>

\* ------------------------------------------------------ data operations
\* this.db.getCollection(SECRETS_COLLECTION), line 136: null before the
\* collection has been loaded or created
getCollection == db.coll

\* a lookup that reads the document as last written to the file
findOneSaved(n) == file.docs[n]

\* coll.findOne({secretName}), lines 137-139: the document, or null
findOne(n) == db.docs[n]

\* secretVersions.push(secretBundle), lines 144-145
push(doc, p) == [doc EXCEPT !.versions = Append(@, p)]

\* coll.update(secretDoc), line 147: Loki returns the document it was given
update(doc) == [kind |-> "SecretRecord", versions |-> doc.versions]

\* setSecret, lines 135-148. coll.findOne on a null collection and
\* coll.update(null) both throw a TypeError, which rejects the promise.
setSecret(n, p) ==
    /\ IF getCollection /\ findOne(n).present
       THEN /\ db' = [db EXCEPT !.docs[n] = push(findOne(n), p)]
            /\ dirty' = TRUE
            /\ Record(Call("setSecret", n, p, "ok", update(push(findOne(n), p))))
       ELSE /\ UNCHANGED <<db, dirty>>
            /\ Record(Call("setSecret", n, p, "TypeError", Nothing))
    /\ UNCHANGED <<flags, autosave, file, saver, pcs, results, order>>

\* a method whose body is: throw new Error("Method not implemented.")
notImplemented(op, n) ==
    /\ Record(Call(op, n, "", "NotImplemented", Nothing))
    /\ UNCHANGED <<flags, loki, file, saver, pcs, results, order>>

\* lines 150-152
deleteSecret(n) == notImplemented("deleteSecret", n)

\* lines 153-155
updateSecret(n) == notImplemented("updateSecret", n)

\* lines 156-158
getSecret(n) == notImplemented("getSecret", n)

\* lines 159-161
getSecrets == notImplemented("getSecrets", "")

\* lines 162-164
getSecretVersions(n) == notImplemented("getSecretVersions", n)

\* The interface declares getDeletedSecret; the class has no such method,
\* so the call throws a TypeError.
getDeletedSecret(n) ==
    /\ Record(Call("getDeletedSecret", n, "", "TypeError", Nothing))
    /\ UNCHANGED <<flags, loki, file, saver, pcs, results, order>>

\* a step of any mutation or query operation
dataOperation ==
    \/ \E n \in Names, p \in Payloads : setSecret(n, p)
    \/ \E n \in Names : deleteSecret(n)
    \/ \E n \in Names : updateSecret(n)
    \/ \E n \in Names : getSecret(n)
    \/ getSecrets
    \/ \E n \in Names : getSecretVersions(n)
    \/ \E n \in Names : getDeletedSecret(n)

\* the versions array of n has room for one more, up to max
room(n, max) == Len(findOne(n).versions) < max

\* no lifecycle call is in flight
lifecycleQuiet == pcInit = "idle" /\ pcClose = "idle" /\ pcClean = "idle"

Next ==
    \/ lifecycleQuiet /\ init
    \/ statDone
    \/ loadDone
    \/ saveDone
    \/ autosaveTick
    \/ lifecycleQuiet /\ close
    \/ lifecycleQuiet /\ clean
    \/ rimrafDone
    \/ \E n \in Names, p \in Payloads : room(n, MaxVersions) /\ setSecret(n, p)
    \/ \E n \in Names : deleteSecret(n)
    \/ \E n \in Names : updateSecret(n)
    \/ \E n \in Names : getSecret(n)
    \/ getSecrets
    \/ \E n \in Names : getSecretVersions(n)
    \/ \E n \in Names : getDeletedSecret(n)

Spec == Init /\ [][Next]_vars

\* Overlapping lifecycle calls over a store whose file, if any, holds one
\* active secret.
InitOverlap ==
    /\ Constructed
    /\ file \in {NoFile, [exists |-> TRUE, docs |-> [EmptyDocs EXCEPT !["a"] = StoredDoc(FALSE)]]}

NextOverlap ==
    \/ init
    \/ statDone
    \/ loadDone
    \/ saveDone
    \/ autosaveTick
    \/ close
    \/ clean
    \/ rimrafDone
    \/ \E p \in Payloads : room("a", MaxOverlapVersions) /\ setSecret("a", p)

SpecOverlap == InitOverlap /\ [][NextOverlap]_vars

\* ---------------------------------------------------------------- claims
\* the store reports itself initialized and open
open == isInitialized /\ ~isClosed

\* the document of an active (present, not soft-deleted) secret
active(n) == getCollection /\ findOne(n).present /\ ~findOne(n).deleted

SecretVersion(p) == [kind |-> "SecretVersion", versions |-> <<p>>]

\* C1: setSecret(n, payload) on an initialized store, for a name n without
\* a record, succeeds and leaves one record for n whose versions are
\* exactly <<payload>>.
C1_SetSecretCreatesRecord ==
    [][\A n \in Names, p \in Payloads :
          (open /\ getCollection /\ ~findOne(n).present /\ setSecret(n, p))
          => /\ last'.res = "ok"
             /\ db'.docs[n] = [present |-> TRUE, versions |-> <<p>>, deleted |-> FALSE]
             /\ \A m \in Names \ {n} : db'.docs[m] = db.docs[m]]_vars

\* C2: setSecret(n, payload) on an active record appends payload to its
\* versions, and no step of any operation makes a record's number of
\* versions smaller.
C2_AppendOnlyHistory ==
    [][/\ \A n \in Names, p \in Payloads :
             (active(n) /\ setSecret(n, p))
             => db'.docs[n].versions = Append(db.docs[n].versions, p)
       /\ \A n \in Names :
             Len(db'.docs[n].versions) >= Len(db.docs[n].versions)]_vars

\* C3: on an initialized store, after setSecret(n, v1) followed by
\* setSecret(n, v2), getSecret(n) returns v2 and getSecretVersions(n)
\* returns <<v1, v2>>.
C3_LatestAndHistoryAfterTwoSets ==
    [][\A n \in Names :
          LET twoSets == /\ open
                         /\ prev.op = "setSecret" /\ prev.name = n /\ prev.arg = "v1"
                         /\ last.op = "setSecret" /\ last.name = n /\ last.arg = "v2"
          IN  /\ (twoSets /\ getSecret(n))
                    => (last'.res = "ok" /\ last'.ret = SecretVersion("v2"))
              /\ (twoSets /\ getSecretVersions(n))
                    => /\ last'.res = "ok"
                       /\ last'.ret = [kind |-> "SecretVersions", versions |-> <<"v1", "v2">>]]_vars

\* C4: a successful setSecret(n, payload) returns the SecretVersion it
\* created, that is the payload, and not the record.
C4_SetSecretReturnsCreatedVersion ==
    (last.op = "setSecret" /\ last.res = "ok") => last.ret = SecretVersion(last.arg)

\* C5: clean() called while isClosed() is false fails with an error and
\* changes nothing: no erase of the backing file is started and the file
\* and the lifecycle flags are as before.
C5_CleanWhileOpenFails ==
    [][(~isClosed /\ clean)
          => /\ cleanRes' = "threw"
             /\ pcClean' = "idle"
             /\ file' = file
             /\ initialized' = initialized
             /\ closed' = closed]_vars

\* C5 witness: clean() has thrown on an open store whose file is in place.
C5_Witness ==
    cleanRes = "threw" /\ open /\ file.exists /\ pcClean = "idle"

\* no init() has been called on the instance yet
neverInitialized == initRes = "none"

\* C6 as stated: on a store that was never initialized clean() fails and
\* starts no erase of the backing file.
C6_CleanFailsWhenUninitialized ==
    [][(neverInitialized /\ clean)
          => (cleanRes' = "threw" /\ pcClean' = "idle")]_vars

\* C6 amended: clean() is permitted whenever isClosed() is true, and
\* isClosed() is true from construction until an init() completes: on a
\* store that was never initialized clean() does not fail but starts the
\* erase of the backing file, which removes the file unless rimraf fails.
C6_CleanErasesWhenUninitialized ==
    [][/\ (neverInitialized /\ clean)
             => (isClosed /\ cleanRes' = "pending" /\ pcClean' = "rimraf")
       /\ (neverInitialized /\ rimrafDone /\ cleanRes' = "resolved")
             => ~file'.exists]_vars

\* C6 witness: clean() on a never-initialized store is erasing a backing
\* file that exists.
C6_Witness ==
    /\ neverInitialized
    /\ cleanRes = "pending"
    /\ pcClean = "rimraf"
    /\ file.exists

\* the store was initialized and a close() has completed since; no further
\* init() has been started
closedAfterUse ==
    /\ isInitialized
    /\ isClosed
    /\ closeRes = "resolved"
    /\ pcInit = "idle"

\* C7: once close() has completed successfully, every mutation or query
\* operation fails and leaves the collection unchanged.
C7_OperationsFailAfterClose ==
    [][(closedAfterUse /\ dataOperation)
          => (last'.res # "ok" /\ db' = db)]_vars

\* C8: once close() has completed on an initialized store, no step (in
\* particular none of a further init()) makes the store report itself open
\* again.
C8_ClosedIsTerminal ==
    [][(isInitialized /\ closeRes = "resolved" /\ isClosed) => isClosed']_vars

\* C9: a mutation or query operation invoked while isInitialized() is
\* false fails and changes neither the collection nor the lifecycle flags.
C9_OperationsFailBeforeInit ==
    [][(~isInitialized /\ dataOperation)
          => /\ last'.res # "ok"
             /\ db' = db
             /\ initialized' = initialized
             /\ closed' = closed]_vars

\* the deleted view of a record: the metadata of its last version
DeletedView(doc) ==
    [kind |-> "DeletedSecret", versions |-> <<doc.versions[Len(doc.versions)]>>]

\* C10: for an active secret n of an open store, deleteSecret(n) followed
\* by getSecret(n) fails with NotFound, and followed by getDeletedSecret(n)
\* succeeds and returns the deleted view with the last version of n.
C10_DeleteThenGet ==
    [][\A n \in Names :
          LET deleted == /\ open
                         /\ findOne(n).present
                         /\ last.op = "deleteSecret" /\ last.name = n
          IN  /\ (deleted /\ getSecret(n)) => last'.res = "NotFound"
              /\ (deleted /\ getDeletedSecret(n))
                    => /\ last'.res = "ok"
                       /\ last'.ret = DeletedView(findOne(n))]_vars

\* Names in ascending ordinal order
Ascending == <<"a", "b">>

\* position of a name in that order; the empty marker sorts before all
position(n) == IF n = "" THEN 0 ELSE CHOOSE i \in DOMAIN Ascending : Ascending[i] = n

RECURSIVE ascendingFrom(_)
\* the active names at positions i and up, ascending
ascendingFrom(i) ==
    IF i > Len(Ascending)
    THEN <<>>
    ELSE (IF active(Ascending[i]) THEN <<Ascending[i]>> ELSE <<>>)
            \o ascendingFrom(i + 1)

\* getSecrets(maxResults, marker) as declared: at most maxResults active
\* names after the marker, ascending, and the marker of the next page (the
\* absent marker "" at the end of the list)
SecretsPage(maxResults, marker) ==
    LET rest == ascendingFrom(position(marker) + 1)
        page == SubSeq(rest, 1, IF Len(rest) < maxResults THEN Len(rest) ELSE maxResults)
    IN  [kind |-> "SecretsPage", names |-> page,
         marker |-> IF Len(rest) > Len(page) THEN page[Len(page)] ELSE ""]

\* C11: a paginated walk starts with getSecrets(k, ""): on an open store the
\* call succeeds and returns the first k active names in ascending order,
\* each once, with the marker of the next page, or the absent marker when
\* the list ends (here for pages of one name).
C11_FirstPageOfWalk ==
    [][(open /\ getSecrets)
          => /\ last'.res = "ok"
             /\ last'.ret = SecretsPage(1, "")]_vars

\* a step in which a close() resolves: at once (nothing to save) or as the
\* callback of its save
closeResolves ==
    /\ closeRes' = "resolved"
    /\ pcClose' = "idle"
    /\ \/ pcClose = "save"
       \/ close

\* the documents in memory when that close() was called
memoryAtClose == IF pcClose = "save" THEN closeMem ELSE db.docs

\* the documents init() of a new instance on the same path loads
reopened == file.docs

\* C12: when a close() of an initialized store resolves, the backing file
\* holds exactly the documents (active and deleted, with the same versions)
\* the instance held in memory when close() was called, so that a new
\* instance on the same path loads exactly those.
C12_RoundTrip ==
    [][(isInitialized /\ closeResolves) => reopened' = memoryAtClose]_vars

\* the last clean() succeeded and the backing file is still gone
cleaned == cleanRes = "resolved" /\ ~file.exists

\* C13: when a clean() succeeds the backing file no longer exists, and an
\* init() that follows it starts with an empty secrets collection: after
\* its stat no record written before the clean is in the collection.
C13_InitAfterCleanStartsEmpty ==
    [][/\ (rimrafDone /\ cleanRes' = "resolved") => ~file'.exists
       /\ (cleaned /\ statDone) => db'.docs = EmptyDocs]_vars

\* a stat step that reports an error although the backing file is there:
\* the load is not started
statFailsOnExistingFile ==
    /\ file.exists
    /\ statDone
    /\ pcInit' \notin {"drain", "load"}

\* C14: init() swallows one failure only, the absent backing file: a stat
\* error on a file that is there, a load error and an error of the baseline
\* save each make init() fail.
C14_OnlyAbsentFileIsSwallowed ==
    [][/\ statFailsOnExistingFile => initRes' = "rejected"
       /\ (loadDone /\ db' = db /\ file.exists /\ pcInit' = "idle")
             => initRes' = "rejected"
       /\ (pcInit = "save" /\ saveDone /\ "init" \in Range(saveCbs) /\ file' = file
              /\ file.docs # saveSnap)
             => initRes' = "rejected"]_vars

\* all but the last element
Front(q) == SubSeq(q, 1, Len(q) - 1)

\* C15: setSecret looks the record up and appends to it in one step, so no
\* update is lost: every call on an existing name leaves the versions the
\* record had followed by its payload, and a call that follows another on
\* the same name leaves the original versions followed by both payloads.
C15_NoLostUpdates ==
    [][\A n \in Names, p \in Payloads :
          (getCollection /\ db.docs[n].present /\ setSecret(n, p))
             => /\ last'.res = "ok"
                /\ db'.docs[n].versions = Append(db.docs[n].versions, p)
                /\ Len(db'.docs[n].versions) = Len(db.docs[n].versions) + 1
                /\ (/\ last.op = "setSecret"
                    /\ last.res = "ok"
                    /\ last.name = n
                    /\ last.ret.versions = db.docs[n].versions)
                      => db'.docs[n].versions
                            = Front(last.ret.versions) \o <<last.arg, p>>]_vars

\* two setSecret calls in a row have appended to the same record
C15_Witness ==
    /\ prev.op = "setSecret" /\ prev.res = "ok" /\ prev.name = "a"
    /\ last.op = "setSecret" /\ last.res = "ok" /\ last.name = "a"
    /\ prev.arg # last.arg
    /\ db.docs["a"].versions = <<"v1", prev.arg, last.arg>>

\* C16: setSecret on a soft-deleted record either resurrects it (the
\* tombstone is cleared and the payload appended) or fails with Conflict
\* and leaves the record unchanged; it never appends to a record that stays
\* soft-deleted.
C16_SetOnDeletedIsExplicit ==
    [][\A n \in Names, p \in Payloads :
          (open /\ getCollection /\ findOne(n).present /\ findOne(n).deleted
                /\ setSecret(n, p))
             => \/ /\ last'.res = "ok"
                   /\ ~db'.docs[n].deleted
                   /\ db'.docs[n].versions = Append(db.docs[n].versions, p)
                \/ /\ last'.res = "Conflict"
                   /\ db' = db]_vars

\* a step in which the init() in flight settles
initSettles == pcInit # "idle" /\ pcInit' = "idle"

\* C17: init() sets initialized = true and closed = false only in the step
\* in which its baseline save has succeeded, and comes to that save, when
\* the backing file exists, only from a load of it that succeeded; when
\* the load or the save fails init() rejects and leaves both flags as they
\* were.
C17_FlagsSetOnlyOnSuccess ==
    [][/\ (initialized' # initialized \/ (closed /\ ~closed'))
             => /\ initSettles
                /\ initRes' = "resolved"
                /\ pcInit = "save"
                /\ saving = "write"
                /\ file' = [exists |-> TRUE, docs |-> saveSnap]
       /\ (pcInit # "save" /\ pcInit' = "save" /\ file.exists)
             => /\ pcInit = "load"
                /\ db' = [coll |-> TRUE, docs |-> file.docs]
       /\ (initSettles /\ initRes' = "rejected")
             => UNCHANGED flags]_vars

\* C18: in every reachable state a store that is not closed is initialized.
C18_OpenImpliesInitialized == ~isClosed => isInitialized

\* an init() has completed and the store is open
C18_Witness == ~isClosed /\ initRes = "resolved" /\ pcInit = "idle"

\* C19: once a close() has resolved isClosed() stays true until an init()
\* is called after it, also when the close() was issued while an earlier
\* init() was suspended at its load or save.
C19_ClosedUntilNextInit ==
    (closeRes = "resolved" /\ ~initSinceClose) => isClosed

\* C20: clean() never erases the backing store while the store is in use:
\* its erase step does not happen while an init() is in flight, nor between
\* a completed init() and the completion of the close() that follows.
C20_NoEraseWhileInUse ==
    [][(rimrafDone /\ cleanRes' = "resolved")
          => (pcInit = "idle" /\ isClosed)]_vars

====
